---- MODULE Spec2Model ----
(***************************************************************************)
(* Safety gateway of the macOS automation agent (src/macos_agent/server.py)*)
(* Sessions, global rate window, per-action cooldowns, the two-phase       *)
(* confirmation handshake, the audit log and the UI element registry.      *)
(*                                                                         *)
(* SpecGate, SpecTime, SpecUI : requests served one at a time (each        *)
(*             handler is one action).                                     *)
(* SpecConc  : worker threads interleave at every access to shared state.  *)
(***************************************************************************)
EXTENDS Integers, Sequences, FiniteSets, TLC

VARIABLES
    cfg,                     \* configuration loaded once by _load_config
    now,                     \* time.time(), in seconds
    SESSION_TOKENS,          \* token -> expiry
    PENDING_CONFIRMATIONS,   \* action_id -> action
    LAST_ACTION,             \* action -> time of the last pass of _cooldown
    REQUEST_TIMESTAMPS,      \* list of times of requests that passed _rate_limit
    UI_ELEMENT_INDEX,        \* element_id -> native element
    audit,                   \* lines of the audit log
    focused,                 \* the focused application reported by the provider
    nextSess, nextConf, nextEl,   \* next fresh uuid4 of each kind
    last,                    \* the last request that changed a store: operation, outcome, driver calls
    issuer,                  \* history: action_id -> operation that issued it
    travStart,               \* history: first element id of the latest traversal
    lastPass,                \* history: action -> time its cooldown gate last passed
    passed,                  \* history: times of all requests that passed the rate gate
    th                       \* SpecConc: worker threads

vars == <<cfg, now, SESSION_TOKENS, PENDING_CONFIRMATIONS, LAST_ACTION,
          REQUEST_TIMESTAMPS, UI_ELEMENT_INDEX, audit, focused,
          nextSess, nextConf, nextEl, last, issuer, travStart, lastPass, passed, th>>

----------------------------------------------------------------------------
(* Bounds of the model *)
MaxTicks == 4          \* clock steps
MaxSess == 1           \* session tokens issued
MaxConf == 2           \* confirmation handles issued
MaxEl == 2             \* element ids issued before a traversal may still start
MaxAudit == 1          \* audit lines written

(* Program constants *)
RateWindow == 60                   \* _rate_limit: now - t < 60
DEFAULT_TTL == 3600                \* SESSION_TOKEN_TTL_SEC

None == "None"          \* Python's None, for string-valued fields
NoId == 0               \* Python's None, for uuid-valued fields (ids are 1, 2, ...)
REDACTED == "***"
TickStep == RateWindow \div 2      \* the clock advances by half a rate window
StartTime == 1000      \* time.time() when the server starts (epoch seconds, > 0)
MaxTime == StartTime + MaxTicks * TickStep

----------------------------------------------------------------------------
(* Dictionaries: functions with a finite domain *)
Get(d, k, default) == IF k \in DOMAIN d THEN d[k] ELSE default
Put(d, k, v) == [x \in DOMAIN d \cup {k} |-> IF x = k THEN v ELSE d[x]]
Pop(d, k) == [x \in DOMAIN d \ {k} |-> d[x]]
EmptyDict == [x \in {} |-> None]

----------------------------------------------------------------------------
(* Configuration: _load_config reads it once; handlers never write it. *)
Wrong == "wrong"

SENSITIVE_ACTIONS == {"run_applescript", "open_app", "press", "shortcuts_run"}

----------------------------------------------------------------------------
(* The gates, as the functions of server.py compute them.  Each takes the   *)
(* store it works on and returns the verdict and the store it leaves.       *)

\* _endpoint_allow (183-185)
endpoint_allow(path) ==
    ~(cfg.allowlist # {} /\ path \notin cfg.allowlist)

\* _auth (169-171): a falsy AGENT_TOKEN disables the check
auth(token) ==
    ~(cfg.token # None /\ token # cfg.token)

\* mutant: refuses a token at the very second of its expiry
session_auth_ge(st, session_token, t) ==
    IF session_token = NoId THEN [ok |-> FALSE, st |-> st]
    ELSE IF session_token \notin DOMAIN st \/ t >= st[session_token]
         THEN [ok |-> FALSE, st |-> Pop(st, session_token)]
    ELSE [ok |-> TRUE, st |-> st]

\* _session_auth (174-180)
session_auth(st, session_token, t) ==
    IF session_token = NoId THEN [ok |-> FALSE, st |-> st]
    ELSE IF session_token \notin DOMAIN st \/ t > st[session_token]
         THEN [ok |-> FALSE, st |-> Pop(st, session_token)]
    ELSE [ok |-> TRUE, st |-> st]

\* mutant: refuses only when the window holds more than the cap
rate_limit_gt(ts, t) ==
    LET kept == SelectSeq(ts, LAMBDA x : t - x < RateWindow) IN
    IF Len(kept) > cfg.rate THEN [ok |-> FALSE, ts |-> kept]
    ELSE [ok |-> TRUE, ts |-> Append(kept, t)]

\* _rate_limit (188-193)
rate_limit(ts, t) ==
    LET kept == SelectSeq(ts, LAMBDA x : t - x < RateWindow) IN
    IF Len(kept) >= cfg.rate THEN [ok |-> FALSE, ts |-> kept]
    ELSE [ok |-> TRUE, ts |-> Append(kept, t)]

\* mutant: still refuses a call made exactly c after the last one
cooldown_le(la, action, t) ==
    LET c == Get(cfg.cooldowns, action, 0)
        lastT == Get(la, action, 0) IN
    IF c > 0 /\ (t - lastT) <= c THEN [ok |-> FALSE, la |-> la]
    ELSE [ok |-> TRUE, la |-> Put(la, action, t)]

\* _cooldown (196-202)
cooldown(la, action, t) ==
    LET c == Get(cfg.cooldowns, action, 0)
        lastT == Get(la, action, 0) IN
    IF c > 0 /\ (t - lastT) < c THEN [ok |-> FALSE, la |-> la]
    ELSE [ok |-> TRUE, la |-> Put(la, action, t)]

\* _require_confirmation (141-146); fresh is the uuid4 drawn
require_confirmation(pc, action, fresh) ==
    IF action \notin SENSITIVE_ACTIONS THEN [id |-> NoId, pc |-> pc]
    ELSE [id |-> fresh, pc |-> Put(pc, fresh, action)]

\* mutant: reads the entry with .get, so a handle stays pending after use
consume_confirmation_get(pc, action_id, action) ==
    [ok |-> Get(pc, action_id, None) = action, pc |-> pc]

\* mutant: compares the popped entry with the handle, which never matches
consume_confirmation_never(pc, action_id, action) ==
    [ok |-> FALSE, pc |-> Pop(pc, action_id)]

\* _consume_confirmation (149-150): pops the entry, then compares its action
consume_confirmation(pc, action_id, action) ==
    [ok |-> Get(pc, action_id, None) = action, pc |-> Pop(pc, action_id)]

\* _redact (161-166)
redact(payload) ==
    [k \in DOMAIN payload |->
        IF k \in {"text", "script", "value", "token"} THEN REDACTED ELSE payload[k]]

\* _audit (153-158): a failed write is swallowed
audit_write(log, action, payload, writable) ==
    IF writable THEN Append(log, [action |-> action, payload |-> payload]) ELSE log

----------------------------------------------------------------------------
(* The stores a handler works on, as one record, so that a handler can be  *)
(* written as the function of the stores it is and can call another        *)
(* handler (ui_click_text calls ui_search and ui_click).                   *)
(*   st SESSION_TOKENS   ts REQUEST_TIMESTAMPS   la LAST_ACTION            *)
(*   pc PENDING_CONFIRMATIONS   idx UI_ELEMENT_INDEX   log the audit log   *)
(*   nc, ne: the next fresh confirmation / element uuid                    *)
(*   tv, lp, ps: the history variables travStart, lastPass, passed         *)
World ==
    [st |-> SESSION_TOKENS, ts |-> REQUEST_TIMESTAMPS, la |-> LAST_ACTION,
     pc |-> PENDING_CONFIRMATIONS, idx |-> UI_ELEMENT_INDEX, log |-> audit,
     nc |-> nextConf, ne |-> nextEl, tv |-> travStart, lp |-> lastPass,
     ps |-> passed]

\* what a handler returns: the stores it leaves, the outcome, the driver
\* primitives it called, the confirmation handle it issued, search results
Ret(w, out, drv, issued, res) ==
    [w |-> w, out |-> out, drv |-> drv, issued |-> issued, res |-> res]

\* The gate sequence every guarded route starts with:
\* _endpoint_allow, _auth, _session_auth, _rate_limit and, where the route
\* has one, _cooldown(action).  action = None for routes without a cooldown.
gates(w, path, token, session_token, action) ==
    LET s == session_auth(w.st, session_token, now)
        r == rate_limit(w.ts, now)
        c == cooldown(w.la, action, now)
        w1 == [w EXCEPT !.st = s.st]
        w2 == [w1 EXCEPT !.ts = r.ts]
        w3 == [w2 EXCEPT !.ps = Append(@, now)]
    IN  IF ~endpoint_allow(path) THEN [out |-> "Forbidden", w |-> w]
        ELSE IF ~auth(token) THEN [out |-> "Unauthorized", w |-> w]
        ELSE IF ~s.ok THEN [out |-> "Unauthorized", w |-> w1]
        ELSE IF ~r.ok THEN [out |-> "RateLimited", w |-> w2]
        ELSE IF action = None THEN [out |-> "pass", w |-> w3]
        ELSE IF ~c.ok THEN [out |-> "CooldownActive", w |-> w3]
        ELSE [out |-> "pass", w |-> [w3 EXCEPT !.la = c.la, !.lp = Put(@, action, now)]]

\* The confirmation step of a sensitive route (264-266, 281-283, 299-301,
\* 329-331, 460-462, 484-486):
\*   if A in SENSITIVE_ACTIONS and not (action_id and _consume_confirmation(action_id, A)):
\*       pending = _require_confirmation(A); return requires_confirmation
\* `and` short-circuits: a falsy action_id never reaches _consume_confirmation.
confirm_gate(w, action_id, action) ==
    LET tried == action_id # NoId
        c == consume_confirmation(w.pc, action_id, action)
        after == IF tried THEN c.pc ELSE w.pc
        r == require_confirmation(after, action, w.nc)
    IN  IF action \in SENSITIVE_ACTIONS /\ ~(tried /\ c.ok)
        THEN [pass |-> FALSE, issued |-> r.id,
              w |-> [w EXCEPT !.pc = r.pc, !.nc = IF r.id # NoId THEN @ + 1 ELSE @]]
        ELSE [pass |-> TRUE, issued |-> NoId,
              w |-> [w EXCEPT !.pc = IF action \in SENSITIVE_ACTIONS THEN after ELSE @]]

\* _audit(action, payload) on the stores
audited(w, action, payload, writable) ==
    [w EXCEPT !.log = audit_write(@, action, payload, writable)]

----------------------------------------------------------------------------
(* Route handlers.  drvOk: the OS driver call returns (TRUE) or raises;    *)
(* writable: the audit log can be appended to.                              *)

\* mutant: writes the audit record before the driver call
click_audit_first(w, token, sess, xy, drvOk, writable) ==
    LET g == gates(w, "/click", token, sess, "click")
        a == audited(g.w, "click", redact([x |-> xy, y |-> xy, button |-> "left"]),
                     writable) IN
    IF g.out # "pass" THEN Ret(g.w, g.out, {}, NoId, <<>>)
    ELSE IF ~drvOk THEN Ret(a, "InternalError", {"click"}, NoId, <<>>)
    ELSE Ret(a, "ok", {"click"}, NoId, <<>>)

\* POST /click (233-242)
click(w, token, sess, xy, drvOk, writable) ==
    LET g == gates(w, "/click", token, sess, "click") IN
    IF g.out # "pass" THEN Ret(g.w, g.out, {}, NoId, <<>>)
    ELSE IF ~drvOk THEN Ret(g.w, "InternalError", {"click"}, NoId, <<>>)
    ELSE Ret(audited(g.w, "click", redact([x |-> xy, y |-> xy, button |-> "left"]),
                     writable),
             "ok", {"click"}, NoId, <<>>)

\* mutant: a failed audit write fails the request
type_text_strict(w, token, sess, text, drvOk, writable) ==
    LET g == gates(w, "/type", token, sess, "type") IN
    IF g.out # "pass" THEN Ret(g.w, g.out, {}, NoId, <<>>)
    ELSE IF ~drvOk \/ ~writable THEN Ret(g.w, "InternalError", {"typewrite"}, NoId, <<>>)
    ELSE Ret(audited(g.w, "type", redact([text |-> text, interval |-> "0.0"]), writable),
             "ok", {"typewrite"}, NoId, <<>>)

\* POST /type (245-254)
type_text(w, token, sess, text, drvOk, writable) ==
    LET g == gates(w, "/type", token, sess, "type") IN
    IF g.out # "pass" THEN Ret(g.w, g.out, {}, NoId, <<>>)
    ELSE IF ~drvOk THEN Ret(g.w, "InternalError", {"typewrite"}, NoId, <<>>)
    ELSE Ret(audited(g.w, "type", redact([text |-> text, interval |-> "0.0"]), writable),
             "ok", {"typewrite"}, NoId, <<>>)

\* POST /press (257-269)
press_keys(w, token, sess, action_id, keys, drvOk, writable) ==
    LET g == gates(w, "/press", token, sess, "press")
        cg == confirm_gate(g.w, action_id, "press")
    IN  IF g.out # "pass" THEN Ret(g.w, g.out, {}, NoId, <<>>)
        ELSE IF ~cg.pass THEN Ret(cg.w, "NeedsConfirmation", {}, cg.issued, <<>>)
        ELSE IF ~drvOk THEN Ret(cg.w, "InternalError", {"hotkey"}, NoId, <<>>)
        ELSE Ret(audited(cg.w, "press", redact([keys |-> keys]), writable),
                 "ok", {"hotkey"}, NoId, <<>>)

\* POST /open_app (272-289)
open_app(w, token, sess, action_id, name, drvOk, writable) ==
    LET g == gates(w, "/open_app", token, sess, "open_app")
        cg == confirm_gate(g.w, action_id, "open_app")
    IN  IF g.out # "pass" THEN Ret(g.w, g.out, {}, NoId, <<>>)
        ELSE IF name \notin cfg.apps THEN Ret(g.w, "Forbidden", {}, NoId, <<>>)
        ELSE IF ~cg.pass THEN Ret(cg.w, "NeedsConfirmation", {}, cg.issued, <<>>)
        ELSE IF ~drvOk THEN Ret(cg.w, "ActionFailed", {"open"}, NoId, <<>>)
        ELSE Ret(audited(cg.w, "open_app", redact([name |-> name]), writable),
                 "ok", {"open"}, NoId, <<>>)

\* POST /run_applescript (292-307)
run_applescript(w, token, sess, action_id, script, drvOk, writable) ==
    LET g == gates(w, "/run_applescript", token, sess, "run_applescript")
        cg == confirm_gate(g.w, action_id, "run_applescript")
    IN  IF g.out # "pass" THEN Ret(g.w, g.out, {}, NoId, <<>>)
        ELSE IF ~cg.pass THEN Ret(cg.w, "NeedsConfirmation", {}, cg.issued, <<>>)
        ELSE IF ~drvOk THEN Ret(cg.w, "ActionFailed", {"osascript"}, NoId, <<>>)
        ELSE Ret(audited(cg.w, "run_applescript", redact([script |-> script]), writable),
                 "ok", {"osascript"}, NoId, <<>>)

\* POST /shortcuts/run (322-337)
run_shortcut(w, token, sess, action_id, name, drvOk, writable) ==
    LET g == gates(w, "/shortcuts/run", token, sess, "shortcuts_run")
        cg == confirm_gate(g.w, action_id, "shortcuts_run")
    IN  IF g.out # "pass" THEN Ret(g.w, g.out, {}, NoId, <<>>)
        ELSE IF ~cg.pass THEN Ret(cg.w, "NeedsConfirmation", {}, cg.issued, <<>>)
        ELSE IF ~drvOk THEN Ret(cg.w, "ActionFailed", {"shortcuts"}, NoId, <<>>)
        ELSE Ret(audited(cg.w, "shortcuts_run", redact([name |-> name]), writable),
                 "ok", {"shortcuts"}, NoId, <<>>)

\* POST /session (215-220); fresh is the uuid4 drawn
create_session(st, token, fresh) ==
    IF ~auth(token) THEN [out |-> "Unauthorized", st |-> st]
    ELSE [out |-> "ok", st |-> Put(st, fresh, now + cfg.ttl)]

\* mutant: reads the pending entry without removing it
confirm_peek(w, token, sess, action_id) ==
    LET s == session_auth(w.st, sess, now) IN
    IF ~auth(token) THEN Ret(w, "Unauthorized", {}, NoId, <<>>)
    ELSE IF ~s.ok THEN Ret([w EXCEPT !.st = s.st], "Unauthorized", {}, NoId, <<>>)
    ELSE IF action_id \in DOMAIN w.pc THEN Ret(w, "ok", {}, NoId, <<w.pc[action_id]>>)
    ELSE Ret(w, "NotFound", {}, NoId, <<>>)

\* POST /confirm (223-230)
confirm(w, token, sess, action_id) ==
    LET s == session_auth(w.st, sess, now) IN
    IF ~auth(token) THEN Ret(w, "Unauthorized", {}, NoId, <<>>)
    ELSE IF ~s.ok THEN Ret([w EXCEPT !.st = s.st], "Unauthorized", {}, NoId, <<>>)
    ELSE IF action_id \in DOMAIN w.pc
         THEN Ret([w EXCEPT !.pc = Pop(@, action_id)], "ok", {}, NoId, <<w.pc[action_id]>>)
    ELSE Ret(w, "NotFound", {}, NoId, <<>>)

----------------------------------------------------------------------------
(* The accessibility provider: a small native tree of the focused app.     *)
(* Attribute strings are sequences of characters; an absent or empty       *)
(* attribute is <<>> (filter(None, ...) drops both).                        *)
App == "app"
Elements == {"app", "win", "btn", "fld"}
NativeChildren ==
    [e \in Elements |->
        IF e = "app" THEN <<"win">>
        ELSE IF e = "win" THEN <<"btn", "fld">>
        ELSE <<>>]
NativeAttr ==
    [e \in Elements |->
        IF e = "app" THEN [role |-> <<"A">>, title |-> <<>>, value |-> <<>>]
        ELSE IF e = "win" THEN [role |-> <<"W">>, title |-> <<"K">>, value |-> <<>>]
        ELSE IF e = "btn" THEN [role |-> <<"B">>, title |-> <<"O", "k">>, value |-> <<>>]
        ELSE [role |-> <<"T">>, title |-> <<>>, value |-> <<"o", "K">>]]

\* the text of the queries a client sends
QueryText ==
    [q \in {"ok", "OK", "b o", "zz"} |->
        IF q = "ok" THEN <<"o", "k">>
        ELSE IF q = "OK" THEN <<"O", "K">>
        ELSE IF q = "b o" THEN <<"b", " ", "o">>
        ELSE <<"z", "z">>]

\* str.lower()
LowerChar(c) ==
    CASE c = "A" -> "a" [] c = "B" -> "b" [] c = "K" -> "k" [] c = "O" -> "o"
      [] c = "T" -> "t" [] c = "W" -> "w" [] OTHER -> c
lower(str) == [i \in 1..Len(str) |-> LowerChar(str[i])]

\* " ".join(parts)
RECURSIVE join(_)
join(parts) ==
    IF parts = <<>> THEN <<>>
    ELSE IF Len(parts) = 1 THEN parts[1]
    ELSE parts[1] \o <<" ">> \o join(Tail(parts))

\* `query in hay` on strings
contains(hay, query) ==
    \E i \in 0..(Len(hay) - Len(query)) :
        \A j \in 1..Len(query) : hay[i + j] = query[j]

RECURSIVE Flatten(_)
Flatten(ss) == IF ss = <<>> THEN <<>> ELSE Head(ss) \o Flatten(Tail(ss))

\* _ax_to_node (372-392): the native elements in the order they are
\* registered (a node before its children, children in provider order).
RECURSIVE ax_to_node(_, _, _)
ax_to_node(element, depth, max_depth) ==
    IF depth >= max_depth THEN <<element>>
    ELSE <<element>> \o
         Flatten([i \in 1..Len(NativeChildren[element]) |->
                    ax_to_node(NativeChildren[element][i], depth + 1, max_depth)])

\* _ax_to_node (372-392): the node it returns, for the fresh ids first,
\* first+1, ... drawn in the order of the calls; next is the first id that
\* is left.  The loop of lines 390-391 is tree_children.
RECURSIVE tree_node(_, _, _, _)
RECURSIVE tree_children(_, _, _, _)
tree_node(element, depth, max_depth, first) ==
    LET kids == tree_children(NativeChildren[element], depth + 1, max_depth, first + 1)
        node == [id |-> first, element |-> element,
                 role |-> NativeAttr[element].role,
                 title |-> NativeAttr[element].title,
                 value |-> NativeAttr[element].value] IN
    IF depth >= max_depth
    THEN [node |-> node @@ [children |-> <<>>], next |-> first + 1]
    ELSE [node |-> node @@ [children |-> kids.nodes], next |-> kids.next]
tree_children(children, depth, max_depth, first) ==
    IF children = <<>> THEN [nodes |-> <<>>, next |-> first]
    ELSE LET h == tree_node(Head(children), depth, max_depth, first)
             t == tree_children(Tail(children), depth, max_depth, h.next)
         IN  [nodes |-> <<h.node>> \o t.nodes, next |-> t.next]

\* mutant: hands the ids out in the reverse of the visiting order
register_rev(idx, els, first) ==
    [i \in DOMAIN idx \cup (first..(first + Len(els) - 1)) |->
        IF i >= first /\ i < first + Len(els) THEN els[Len(els) - (i - first)] ELSE idx[i]]

\* UI_ELEMENT_INDEX[element_id] = element (377) for the nodes of one
\* traversal, which draw the fresh ids first, first+1, ...
register(idx, els, first) ==
    [i \in DOMAIN idx \cup (first..(first + Len(els) - 1)) |->
        IF i >= first /\ i < first + Len(els) THEN els[i - first + 1] ELSE idx[i]]

\* the test of _search_tree (417-420) on one node
matches(element, query) ==
    LET a == NativeAttr[element]
        hay == lower(join(SelectSeq(<<a.role, a.title, a.value>>, LAMBDA p : p # <<>>)))
    IN  contains(hay, query)

\* _search_tree (416-428): ids of the matching nodes, in traversal order
search_tree(els, first, query) ==
    LET hit == SelectSeq([i \in 1..Len(els) |-> i], LAMBDA i : matches(els[i], query))
    IN  [k \in 1..Len(hit) |-> first + hit[k] - 1]

\* mutant: rebuilds the registry without clearing it first
traverse_keep(w, max_depth) ==
    LET cleared == [w EXCEPT !.tv = w.ne]
        els == ax_to_node(focused, 0, max_depth)
    IN  IF ~cfg.quartz THEN [out |-> "BadRequest", w |-> w, els |-> <<>>, drv |-> {}]
        ELSE IF focused = None
        THEN [out |-> "NotFound", w |-> cleared, els |-> <<>>, drv |-> {"AXFocusedApplication"}]
        ELSE [out |-> "ok", els |-> els, drv |-> {"AXFocusedApplication", "AXAttributes"},
              w |-> [cleared EXCEPT !.idx = register(w.idx, els, w.ne),
                                    !.ne = w.ne + Len(els)]]

\* lines 402-411 / 437-446: clear the registry, then rebuild it from the
\* focused application
traverse(w, max_depth) ==
    LET cleared == [w EXCEPT !.idx = EmptyDict, !.tv = w.ne]
        els == ax_to_node(focused, 0, max_depth)
    IN  IF ~cfg.quartz THEN [out |-> "BadRequest", w |-> w, els |-> <<>>, drv |-> {}]
        ELSE IF focused = None
        THEN [out |-> "NotFound", w |-> cleared, els |-> <<>>, drv |-> {"AXFocusedApplication"}]
        ELSE [out |-> "ok", els |-> els, drv |-> {"AXFocusedApplication", "AXAttributes"},
              w |-> [cleared EXCEPT !.idx = register(EmptyDict, els, w.ne),
                                    !.ne = w.ne + Len(els)]]

\* GET /ui_tree/full (395-413); the answer carries the tree
ui_tree_full(w, token, sess, max_depth, writable) ==
    LET g == gates(w, "/ui_tree/full", token, sess, None)
        t == traverse(g.w, max_depth)
    IN  IF g.out # "pass" THEN Ret(g.w, g.out, {}, NoId, <<>>)
        ELSE IF t.out # "ok" THEN Ret(t.w, t.out, t.drv, NoId, <<>>)
        ELSE Ret(audited(t.w, "ui_tree_full", [max_depth |-> max_depth], writable),
                 "ok", t.drv, NoId, <<tree_node(focused, 0, max_depth, g.w.ne).node>>)

\* POST /ui_search (431-450)
ui_search(w, token, sess, query, max_depth, writable) ==
    LET g == gates(w, "/ui_search", token, sess, None)
        t == traverse(g.w, max_depth)
    IN  IF g.out # "pass" THEN Ret(g.w, g.out, {}, NoId, <<>>)
        ELSE IF t.out # "ok" THEN Ret(t.w, t.out, t.drv, NoId, <<>>)
        ELSE Ret(audited(t.w, "ui_search", [query |-> query, max_depth |-> max_depth],
                         writable),
                 "ok", t.drv, NoId, search_tree(t.els, g.w.ne, lower(QueryText[query])))

\* POST /ui_click (477-498)
ui_click(w, token, sess, action_id, element_id, drvOk, writable) ==
    LET g == gates(w, "/ui_click", token, sess, "ui_click")
        cg == confirm_gate(g.w, action_id, "press")
    IN  IF g.out # "pass" THEN Ret(g.w, g.out, {}, NoId, <<>>)
        ELSE IF ~cg.pass THEN Ret(cg.w, "NeedsConfirmation", {}, cg.issued, <<>>)
        ELSE IF element_id \notin DOMAIN cg.w.idx THEN Ret(cg.w, "NotFound", {}, NoId, <<>>)
        ELSE IF ~drvOk THEN Ret(cg.w, "ActionFailed", {"AXPress"}, NoId, <<>>)
        ELSE Ret(audited(cg.w, "ui_click", [element_id |-> element_id], writable),
                 "ok", {"AXPress"}, NoId, <<>>)

\* The value a route parameter `x_session_token = Header(None)` has when the
\* handler is called as a plain function without it (464, 474): the Header
\* object itself, which is not None and is no key of SESSION_TOKENS.
HeaderDefault == -1

\* POST /ui_click_text (453-474).  hashable: whether the Header object can
\* be used as a dictionary key (SESSION_TOKENS.get raises TypeError if not).
ui_click_text(w, token, sess, action_id, query, max_depth, drvOk, writable, hashable) ==
    LET g == gates(w, "/ui_click_text", token, sess, "ui_click")
        cg == confirm_gate(g.w, action_id, "press")
        search == ui_search(cg.w, token, HeaderDefault, query, max_depth, writable)
        first == search.res[1]
        clicked == ui_click(search.w, token, HeaderDefault, action_id, first,
                            drvOk, writable)
    IN  IF g.out # "pass" THEN Ret(g.w, g.out, {}, NoId, <<>>)
        ELSE IF ~cg.pass THEN Ret(cg.w, "NeedsConfirmation", {}, cg.issued, <<>>)
        ELSE IF search.out = "Unauthorized" /\ ~hashable
        THEN Ret(search.w, "InternalError", search.drv, NoId, <<>>)
        ELSE IF search.out # "ok" THEN Ret(search.w, search.out, search.drv, NoId, <<>>)
        ELSE IF search.res = <<>> THEN Ret(search.w, "NotFound", search.drv, NoId, <<>>)
        ELSE IF clicked.out = "Unauthorized" /\ ~hashable
        THEN Ret(clicked.w, "InternalError", search.drv, NoId, <<>>)
        ELSE Ret(clicked.w, clicked.out, search.drv \cup clicked.drv, clicked.issued, <<>>)

\* POST /ui_set (501-520); value = None when the request carries none
ui_set(w, token, sess, element_id, value, drvOk, writable) ==
    LET g == gates(w, "/ui_set", token, sess, None) IN
    IF g.out # "pass" THEN Ret(g.w, g.out, {}, NoId, <<>>)
    ELSE IF element_id \notin DOMAIN g.w.idx THEN Ret(g.w, "NotFound", {}, NoId, <<>>)
    ELSE IF value = None THEN Ret(g.w, "BadRequest", {}, NoId, <<>>)
    ELSE IF ~drvOk THEN Ret(g.w, "ActionFailed", {"AXValue"}, NoId, <<>>)
    ELSE Ret(audited(g.w, "ui_set", [element_id |-> element_id, value |-> value], writable),
             "ok", {"AXValue"}, NoId, <<>>)

\* POST /ui_focus (523-539)
ui_focus(w, token, sess, element_id, drvOk, writable) ==
    LET g == gates(w, "/ui_focus", token, sess, None) IN
    IF g.out # "pass" THEN Ret(g.w, g.out, {}, NoId, <<>>)
    ELSE IF element_id \notin DOMAIN g.w.idx THEN Ret(g.w, "NotFound", {}, NoId, <<>>)
    ELSE IF ~drvOk THEN Ret(g.w, "ActionFailed", {"AXFocused"}, NoId, <<>>)
    ELSE Ret(audited(g.w, "ui_focus", [element_id |-> element_id], writable),
             "ok", {"AXFocused"}, NoId, <<>>)

\* POST /ui_scroll (542-558)
ui_scroll(w, token, sess, element_id, drvOk, writable) ==
    LET g == gates(w, "/ui_scroll", token, sess, None) IN
    IF g.out # "pass" THEN Ret(g.w, g.out, {}, NoId, <<>>)
    ELSE IF element_id \notin DOMAIN g.w.idx THEN Ret(g.w, "NotFound", {}, NoId, <<>>)
    ELSE IF ~drvOk THEN Ret(g.w, "ActionFailed", {"AXScrollDown"}, NoId, <<>>)
    ELSE Ret(audited(g.w, "ui_scroll", [element_id |-> element_id], writable),
             "ok", {"AXScrollDown"}, NoId, <<>>)

----------------------------------------------------------------------------
(* State machine: requests served one at a time *)

InitWith(configs, apps) ==
    /\ cfg \in configs
    /\ now = StartTime
    /\ SESSION_TOKENS = [x \in {} |-> 0]
    /\ PENDING_CONFIRMATIONS = EmptyDict
    /\ LAST_ACTION = [x \in {} |-> 0]
    /\ REQUEST_TIMESTAMPS = <<>>
    /\ UI_ELEMENT_INDEX = EmptyDict
    /\ audit = <<>>
    /\ focused \in apps
    /\ nextSess = 1 /\ nextConf = 1 /\ nextEl = 1
    /\ last = [op |-> "start", out |-> "ok", drv |-> {}]
    /\ issuer = EmptyDict
    /\ travStart = 1
    /\ lastPass = [x \in {} |-> 0]
    /\ passed = <<>>
    /\ th = <<>>

\* the inputs a client may send
Tokens == IF cfg.token = None THEN {None} ELSE {cfg.token, Wrong}
Sessions == 0..MaxSess
Handles == 0..MaxConf
ElementIds == 1..MaxEl
Depths == {0, 1, 2}
Keys == {"k1", "k2"}
AppNames == {"Safari", "Mail"}
Scripts == {"s1", "s2"}
Shortcuts == {"n1", "n2"}
Queries == DOMAIN QueryText
Values == {None, "v1"}

\* The request op(arg) was served with result r.
Serve(op, arg, r) ==
    /\ r.w.nc <= MaxConf + 1
    /\ Len(r.w.log) <= MaxAudit
    /\ SESSION_TOKENS' = r.w.st
    /\ REQUEST_TIMESTAMPS' = r.w.ts
    /\ LAST_ACTION' = r.w.la
    /\ PENDING_CONFIRMATIONS' = r.w.pc
    /\ UI_ELEMENT_INDEX' = r.w.idx
    /\ audit' = r.w.log
    /\ nextConf' = r.w.nc
    /\ nextEl' = r.w.ne
    /\ travStart' = r.w.tv
    /\ lastPass' = r.w.lp
    /\ passed' = r.w.ps
    /\ last' = IF r.w = World THEN last
               ELSE [op |-> op, out |-> r.out, drv |-> r.drv]
    /\ issuer' = IF r.issued # NoId
                 THEN Put(issuer, r.issued, [op |-> op, arg |-> arg]) ELSE issuer
    /\ UNCHANGED <<cfg, now, focused, nextSess, th>>

\* time passes between requests
Tick ==
    /\ now + TickStep <= MaxTime
    /\ now' = now + TickStep
    /\ UNCHANGED <<cfg, SESSION_TOKENS, PENDING_CONFIRMATIONS, LAST_ACTION,
                   REQUEST_TIMESTAMPS, UI_ELEMENT_INDEX, audit, focused,
                   nextSess, nextConf, nextEl, last, issuer, travStart,
                   lastPass, passed, th>>

\* the user brings another application to the front, or none
FocusChange ==
    /\ focused' \in {None, App} \ {focused}
    /\ UNCHANGED <<cfg, now, SESSION_TOKENS, PENDING_CONFIRMATIONS, LAST_ACTION,
                   REQUEST_TIMESTAMPS, UI_ELEMENT_INDEX, audit,
                   nextSess, nextConf, nextEl, last, issuer, travStart,
                   lastPass, passed, th>>

ServeSession ==
    \E t \in Tokens :
        LET r == create_session(SESSION_TOKENS, t, nextSess) IN
        /\ nextSess <= MaxSess
        /\ SESSION_TOKENS' = r.st
        /\ nextSess' = IF r.out = "ok" THEN nextSess + 1 ELSE nextSess
        /\ last' = IF r.st = SESSION_TOKENS THEN last
                   ELSE [op |-> "session", out |-> r.out, drv |-> {}]
        /\ UNCHANGED <<cfg, now, PENDING_CONFIRMATIONS, LAST_ACTION, REQUEST_TIMESTAMPS,
                       UI_ELEMENT_INDEX, audit, focused, nextConf, nextEl, issuer,
                       travStart, lastPass, passed, th>>

ServeConfirm ==
    \E t \in Tokens, s \in Sessions, a \in Handles \ {NoId} :
        Serve("confirm", None, confirm(World, t, s, a))

\* Oks: the driver outcomes, Wrs: the states of the audit log file, that the
\* environment of a specification may produce.
ServeClick(Oks, Wrs) ==
    \E t \in Tokens, s \in Sessions, ok \in Oks, wr \in Wrs :
        Serve("click", "p1", click(World, t, s, "p1", ok, wr))

ServeType(Oks, Wrs) ==
    \E t \in Tokens, s \in Sessions, ok \in Oks, wr \in Wrs :
        Serve("type", "secret", type_text(World, t, s, "secret", ok, wr))

ServePress(Oks, Wrs) ==
    \E t \in Tokens, s \in Sessions, a \in Handles, k \in Keys, ok \in Oks, wr \in Wrs :
        Serve("press", k, press_keys(World, t, s, a, k, ok, wr))

ServeOpenApp(Oks, Wrs) ==
    \E t \in Tokens, s \in Sessions, a \in Handles, n \in AppNames, ok \in Oks, wr \in Wrs :
        Serve("open_app", n, open_app(World, t, s, a, n, ok, wr))

ServeRunAppleScript(Oks, Wrs) ==
    \E t \in Tokens, s \in Sessions, a \in Handles, sc \in Scripts, ok \in Oks, wr \in Wrs :
        Serve("run_applescript", sc, run_applescript(World, t, s, a, sc, ok, wr))

ServeRunShortcut(Oks, Wrs) ==
    \E t \in Tokens, s \in Sessions, a \in Handles, n \in Shortcuts, ok \in Oks, wr \in Wrs :
        Serve("shortcuts_run", n, run_shortcut(World, t, s, a, n, ok, wr))

ServeUiTreeFull(Ds, Wrs) ==
    \E t \in Tokens, s \in Sessions, d \in Ds, wr \in Wrs :
        /\ nextEl <= MaxEl
        /\ Serve("ui_tree_full", None, ui_tree_full(World, t, s, d, wr))

ServeUiSearch(Qs, Ds, Wrs) ==
    \E t \in Tokens, s \in Sessions, q \in Qs, d \in Ds, wr \in Wrs :
        /\ nextEl <= MaxEl
        /\ Serve("ui_search", q, ui_search(World, t, s, q, d, wr))

ServeUiClick(Oks, Wrs) ==
    \E t \in Tokens, s \in Sessions, a \in Handles, e \in ElementIds, ok \in Oks, wr \in Wrs :
        Serve("ui_click", e, ui_click(World, t, s, a, e, ok, wr))

ServeUiClickText(Qs, Ds, Oks, Wrs) ==
    \E t \in Tokens, s \in Sessions, a \in Handles, q \in Qs, d \in Ds,
       ok \in Oks, wr \in Wrs, h \in BOOLEAN :
        /\ nextEl <= MaxEl
        /\ Serve("ui_click_text", q,
                 ui_click_text(World, t, s, a, q, d, ok, wr, h))

ServeUiSet(Oks, Wrs) ==
    \E t \in Tokens, s \in Sessions, e \in ElementIds, v \in Values, ok \in Oks, wr \in Wrs :
        Serve("ui_set", v, ui_set(World, t, s, e, v, ok, wr))

ServeUiFocus(Oks, Wrs) ==
    \E t \in Tokens, s \in Sessions, e \in ElementIds, ok \in Oks, wr \in Wrs :
        Serve("ui_focus", None, ui_focus(World, t, s, e, ok, wr))

ServeUiScroll(Oks, Wrs) ==
    \E t \in Tokens, s \in Sessions, e \in ElementIds, ok \in Oks, wr \in Wrs :
        Serve("ui_scroll", None, ui_scroll(World, t, s, e, ok, wr))

----------------------------------------------------------------------------
(* SpecGate: the confirmation handshake.  One deployment without secret,   *)
(* cooldowns or endpoint allowlist; the clock stands still, so the rate    *)
(* cap bounds the requests that reach the confirmation gate.  The audit    *)
(* log is writable; every driver may fail.                                 *)
CfgGate ==
    [token |-> None, ttl |-> DEFAULT_TTL, rate |-> 3, cooldowns |-> EmptyDict,
     allowlist |-> {}, apps |-> {"Safari"}, quartz |-> TRUE]

InitGate == InitWith({CfgGate}, {App})

NextGate ==
    \/ ServeSession
    \/ ServeConfirm
    \/ ServePress(BOOLEAN, {TRUE})
    \/ ServeOpenApp(BOOLEAN, {TRUE})
    \/ ServeRunAppleScript(BOOLEAN, {TRUE})
    \/ ServeRunShortcut(BOOLEAN, {TRUE})
    \/ ServeUiTreeFull({1}, {TRUE})
    \/ ServeUiClick(BOOLEAN, {TRUE})
    \/ ServeUiClickText({"ok"}, {2}, BOOLEAN, {TRUE})

SpecGate == InitGate /\ [][NextGate]_vars

----------------------------------------------------------------------------
(* Vocabulary of the properties *)

PlainOps == {"press", "open_app", "run_applescript", "shortcuts_run"}
SensitiveOps == PlainOps \cup {"ui_click", "ui_click_text"}

PathOf(op) ==
    CASE op = "press" -> "/press" [] op = "open_app" -> "/open_app"
      [] op = "run_applescript" -> "/run_applescript"
      [] op = "shortcuts_run" -> "/shortcuts/run"
      [] op = "ui_click" -> "/ui_click" [] op = "ui_click_text" -> "/ui_click_text"

CooldownOf(op) == IF op = "ui_click_text" THEN "ui_click" ELSE op

\* the driver primitive that carries out the operation
DriverOf(op) ==
    CASE op = "press" -> "hotkey" [] op = "open_app" -> "open"
      [] op = "run_applescript" -> "osascript" [] op = "shortcuts_run" -> "shortcuts"
      [] op = "ui_click" -> "AXPress" [] op = "ui_click_text" -> "AXPress"
SensitiveDrivers == {DriverOf(op) : op \in SensitiveOps}

\* the parameters a client may send with the operation
ArgsOf(op) ==
    CASE op = "press" -> Keys [] op = "open_app" -> AppNames
      [] op = "run_applescript" -> Scripts [] op = "shortcuts_run" -> Shortcuts
      [] op = "ui_click" -> ElementIds [] op = "ui_click_text" -> {"ok"}

\* the result of serving op(x) with handle a on the stores w
Call(w, op, t, s, a, x, ok, hh) ==
    CASE op = "press" -> press_keys(w, t, s, a, x, ok, TRUE)
      [] op = "open_app" -> open_app(w, t, s, a, x, ok, TRUE)
      [] op = "run_applescript" -> run_applescript(w, t, s, a, x, ok, TRUE)
      [] op = "shortcuts_run" -> run_shortcut(w, t, s, a, x, ok, TRUE)
      [] op = "ui_click" -> ui_click(w, t, s, a, x, ok, TRUE)
      [] op = "ui_click_text" -> ui_click_text(w, t, s, a, x, 2, ok, TRUE, hh)

\* the request passes every gate that precedes the confirmation gate
EarlierGatesPass(op, t, s, x) ==
    /\ gates(World, PathOf(op), t, s, CooldownOf(op)).out = "pass"
    /\ op = "open_app" => x \in cfg.apps

\* the request names something the operation can act on: a registered
\* element, a query that has a match in the focused application
WellFormed(op, x) ==
    /\ op = "ui_click" => x \in DOMAIN UI_ELEMENT_INDEX
    /\ op = "ui_click_text" => focused # None

\* whether the Header object is hashable matters to ui_click_text only
HashOf(op) == IF op = "ui_click_text" THEN BOOLEAN ELSE {TRUE}

Executed(op, r) == DriverOf(op) \in r.drv
Deferred(r) == r.out = "NeedsConfirmation" /\ r.issued # NoId /\ r.drv = {}

Issued == DOMAIN issuer                         \* every handle ever issued
Consumed == Issued \ DOMAIN PENDING_CONFIRMATIONS

----------------------------------------------------------------------------
\* C1: for every sensitive operation whose earlier gates pass: a call
\* without a handle is deferred with a fresh handle and does not execute;
\* the same call retried with that handle executes; retried with the handle
\* once it is consumed it is deferred again, with a different handle.
C1_Handshake ==
    \A op \in SensitiveOps, t \in Tokens, s \in Sessions, ok \in BOOLEAN :
      \A x \in ArgsOf(op), hh \in HashOf(op) :
        (EarlierGatesPass(op, t, s, x) /\ WellFormed(op, x)) =>
          /\ LET r == Call(World, op, t, s, NoId, x, ok, hh)
             IN  Deferred(r) /\ r.issued \notin Issued
          /\ \A h \in DOMAIN PENDING_CONFIRMATIONS :
               (issuer[h].op = op /\ issuer[h].arg = x) =>
                   Executed(op, Call(World, op, t, s, h, x, ok, hh))
          /\ \A h \in Consumed :
               issuer[h].op = op =>
                   LET r == Call(World, op, t, s, h, x, ok, hh)
                   IN  Deferred(r) /\ r.issued # h

\* The handshake of C1 does hold for the five operations other than
\* ui_click_text.
C1_HandshakeDirect ==
    \A op \in SensitiveOps \ {"ui_click_text"}, t \in Tokens, s \in Sessions,
       ok \in BOOLEAN :
      \A x \in ArgsOf(op) :
        (EarlierGatesPass(op, t, s, x) /\ WellFormed(op, x)) =>
          /\ LET r == Call(World, op, t, s, NoId, x, ok, TRUE)
             IN  Deferred(r) /\ r.issued \notin Issued
          /\ \A h \in DOMAIN PENDING_CONFIRMATIONS :
               (issuer[h].op = op /\ issuer[h].arg = x) =>
                   Executed(op, Call(World, op, t, s, h, x, ok, TRUE))
          /\ \A h \in Consumed :
               issuer[h].op = op =>
                   LET r == Call(World, op, t, s, h, x, ok, TRUE)
                   IN  Deferred(r) /\ r.issued # h

----------------------------------------------------------------------------
\* the request removes exactly the pending entry h
Removes(r, h) ==
    /\ h \in DOMAIN PENDING_CONFIRMATIONS
    /\ r.w.pc = Pop(PENDING_CONFIRMATIONS, h)

\* the request adds exactly one pending entry, under a new handle
AddsOne(r) ==
    /\ r.issued \notin DOMAIN PENDING_CONFIRMATIONS
    /\ DOMAIN r.w.pc = DOMAIN PENDING_CONFIRMATIONS \cup {r.issued}
    /\ \A h \in DOMAIN PENDING_CONFIRMATIONS : r.w.pc[h] = PENDING_CONFIRMATIONS[h]

\* C2 (as stated): a request that calls a sensitive driver removed one
\* pending entry; a sensitive request with no handle, or with a handle that
\* is not pending, never reaches the driver and adds one new pending entry.
C2_DriverNeedsConsume ==
    \A op \in SensitiveOps, t \in Tokens, s \in Sessions, a \in Handles,
       ok \in BOOLEAN :
      \A x \in ArgsOf(op), hh \in HashOf(op) :
        LET r == Call(World, op, t, s, a, x, ok, hh) IN
        /\ (r.drv \cap SensitiveDrivers # {}) => Removes(r, a)
        /\ (a = NoId \/ a \notin DOMAIN PENDING_CONFIRMATIONS) =>
               (r.drv = {} /\ AddsOne(r))

\* C2 (amended): ... a sensitive request with no handle, or with a handle
\* that is not pending, never reaches the driver and, when it passes the
\* gates before the confirmation gate, adds one new pending entry (when it
\* does not pass them it leaves the pending set as it is).
C2_DriverNeedsConsumeGated ==
    \A op \in SensitiveOps, t \in Tokens, s \in Sessions, a \in Handles,
       ok \in BOOLEAN :
      \A x \in ArgsOf(op), hh \in HashOf(op) :
        LET r == Call(World, op, t, s, a, x, ok, hh) IN
        /\ (r.drv \cap SensitiveDrivers # {}) => Removes(r, a)
        /\ (a = NoId \/ a \notin DOMAIN PENDING_CONFIRMATIONS) =>
               /\ r.drv = {}
               /\ IF EarlierGatesPass(op, t, s, x)
                  THEN AddsOne(r) /\ r.out = "NeedsConfirmation"
                  ELSE r.w.pc = PENDING_CONFIRMATIONS

\* a sensitive driver was called, and a request without a pending handle
\* would now be deferred
C2_Witness ==
    /\ last.op \in SensitiveOps /\ last.drv \cap SensitiveDrivers # {}
    /\ \E op \in PlainOps, t \in Tokens, s \in Sessions :
         \E x \in ArgsOf(op) : EarlierGatesPass(op, t, s, x)

----------------------------------------------------------------------------
\* C4: a handle issued by sensitive operation A never lets a call of a
\* different sensitive operation B execute.
C4_HandleBoundToOperation ==
    \A h \in DOMAIN PENDING_CONFIRMATIONS :
      \A op \in SensitiveOps \ {issuer[h].op}, t \in Tokens, s \in Sessions,
         ok \in BOOLEAN :
        \A x \in ArgsOf(op), hh \in HashOf(op) :
          ~Executed(op, Call(World, op, t, s, h, x, ok, hh))

----------------------------------------------------------------------------
\* C5 (as stated): a retry that presents the handle with the same operation
\* but parameters other than those of the issuing call does not execute.
C5_HandleBoundToParameters ==
    \A h \in DOMAIN PENDING_CONFIRMATIONS :
      \A t \in Tokens, s \in Sessions, ok \in BOOLEAN :
        \A x \in ArgsOf(issuer[h].op) \ {issuer[h].arg}, hh \in HashOf(issuer[h].op) :
          ~Executed(issuer[h].op, Call(World, issuer[h].op, t, s, h, x, ok, hh))

\* C5 (amended): the handle is bound to the action kind only.  For press,
\* open application, run script, run shortcut and UI click by handle, a
\* retry of the issuing operation that presents the pending handle and
\* passes the earlier gates executes and consumes the handle, with the
\* parameters of the issuing call and with any others.
C5_HandleBoundToKindOnly ==
    \A h \in DOMAIN PENDING_CONFIRMATIONS :
      issuer[h].op \in PlainOps \cup {"ui_click"} =>
        \A t \in Tokens, s \in Sessions, ok \in BOOLEAN :
          \A x \in ArgsOf(issuer[h].op) :
            (EarlierGatesPass(issuer[h].op, t, s, x) /\ WellFormed(issuer[h].op, x)) =>
              LET r == Call(World, issuer[h].op, t, s, h, x, ok, TRUE) IN
              Executed(issuer[h].op, r) /\ Removes(r, h)

\* the only handle ever issued came from run script "s1" and was consumed
\* by a run of script "s2", which the audit log records
C5_Witness ==
    /\ DOMAIN issuer = {1}
    /\ issuer[1] = [op |-> "run_applescript", arg |-> "s1"]
    /\ 1 \in Consumed
    /\ last = [op |-> "run_applescript", out |-> "ok", drv |-> {"osascript"}]
    /\ audit = <<[action |-> "run_applescript", payload |-> [script |-> REDACTED]]>>

----------------------------------------------------------------------------
\* C6: confirm(handle) with a valid session removes a pending entry and
\* returns its action kind, or fails with NotFound and leaves the pending
\* set unchanged; it calls no driver and writes no audit record; and a
\* handle that is no longer pending satisfies no guarded call: that call is
\* deferred with a new handle.
C6_ConfirmOnly ==
    /\ \A t \in Tokens, s \in Sessions, a \in Handles \ {NoId} :
         LET r == confirm(World, t, s, a) IN
         /\ r.drv = {} /\ r.w.log = audit
         /\ (auth(t) /\ session_auth(SESSION_TOKENS, s, now).ok) =>
              IF a \in DOMAIN PENDING_CONFIRMATIONS
              THEN /\ r.out = "ok" /\ r.res = <<PENDING_CONFIRMATIONS[a]>>
                   /\ Removes(r, a)
              ELSE r.out = "NotFound" /\ r.w.pc = PENDING_CONFIRMATIONS
    /\ \A h \in Consumed :
         \A op \in SensitiveOps, t \in Tokens, s \in Sessions, ok \in BOOLEAN :
           \A x \in ArgsOf(op), hh \in HashOf(op) :
             LET r == Call(World, op, t, s, h, x, ok, hh) IN
             /\ r.drv = {}
             /\ EarlierGatesPass(op, t, s, x) => (Deferred(r) /\ r.issued # h)

\* confirm has just removed the only handle issued; nothing was executed
C6_Witness ==
    /\ last.op = "confirm" /\ last.out = "ok"
    /\ Consumed = {1} /\ audit = <<>>

----------------------------------------------------------------------------
(* Every guarded route, for the properties of the gates *)

PlainRoutes == {"click", "type"}
TraversalOps == {"ui_tree_full", "ui_search"}
HandleOps == {"ui_set", "ui_focus", "ui_scroll"}        \* UI actions by element id
AllOps == SensitiveOps \cup PlainRoutes \cup TraversalOps \cup HandleOps

\* the routes that call _cooldown, and the action kind they pass to it
CooledOps == SensitiveOps \cup PlainRoutes
KindOf(op) == IF op \in SensitiveOps THEN CooldownOf(op) ELSE op

RouteOf(op) ==
    CASE op = "click" -> "/click" [] op = "type" -> "/type"
      [] op = "ui_tree_full" -> "/ui_tree/full" [] op = "ui_search" -> "/ui_search"
      [] op = "ui_set" -> "/ui_set" [] op = "ui_focus" -> "/ui_focus"
      [] op = "ui_scroll" -> "/ui_scroll" [] OTHER -> PathOf(op)

ParamsOf(op) ==
    CASE op = "click" -> {"p1"} [] op = "type" -> {"secret"}
      [] op = "ui_tree_full" -> Depths [] op = "ui_search" -> Queries
      [] op \in HandleOps -> ElementIds [] OTHER -> ArgsOf(op)

\* the result of serving op(x) (with handle a, where the route takes one)
Request(w, op, t, s, a, x, ok) ==
    CASE op = "click" -> click(w, t, s, x, ok, TRUE)
      [] op = "type" -> type_text(w, t, s, x, ok, TRUE)
      [] op = "ui_tree_full" -> ui_tree_full(w, t, s, x, TRUE)
      [] op = "ui_search" -> ui_search(w, t, s, x, 2, TRUE)
      [] op = "ui_set" -> ui_set(w, t, s, x, "v1", ok, TRUE)
      [] op = "ui_focus" -> ui_focus(w, t, s, x, ok, TRUE)
      [] op = "ui_scroll" -> ui_scroll(w, t, s, x, ok, TRUE)
      [] OTHER -> Call(w, op, t, s, a, x, ok, TRUE)

\* the handles a client may present: the sensitive routes alone take one
HandlesOf(op) == IF op \in SensitiveOps THEN Handles ELSE {NoId}

\* the request passes _endpoint_allow, _auth and _session_auth
ReachesRate(op, t, s) ==
    endpoint_allow(RouteOf(op)) /\ auth(t) /\ session_auth(SESSION_TOKENS, s, now).ok

\* the request passes _rate_limit too
ReachesCooldown(op, t, s) == gates(World, RouteOf(op), t, s, None).out = "pass"

----------------------------------------------------------------------------
(* SpecTime: the clock advances by half a rate window between requests.    *)
(* Two requests per window; press cools down for a whole window, click for *)
(* half of one, type is configured with 0 and the other kinds not at all.  *)
CfgTime ==
    [token |-> None, ttl |-> DEFAULT_TTL, rate |-> 2,
     cooldowns |-> [k \in {"press", "click", "type"} |->
                      IF k = "press" THEN 2 * TickStep
                      ELSE IF k = "click" THEN TickStep ELSE 0],
     allowlist |-> {}, apps |-> {"Safari"}, quartz |-> TRUE]

InitTime == InitWith({CfgTime}, {App})

NextTime ==
    \/ Tick
    \/ ServeSession
    \/ ServeClick({TRUE}, {TRUE})
    \/ ServeType({TRUE}, {TRUE})
    \/ ServePress({TRUE}, {TRUE})

SpecTime == InitTime /\ [][NextTime]_vars

----------------------------------------------------------------------------
\* C7: for requests served one after the other that pass the earlier gates:
\* where the action kind has a configured cooldown c > 0, a call made less
\* than c after the last call of that kind that passed the cooldown check
\* fails with CooldownActive (and reaches no driver), and a call made at
\* least c after it, or the first of its kind, passes the check; a kind
\* with no cooldown configured, or with 0, always passes it.
C7_Cooldown ==
    \A op \in CooledOps, t \in Tokens, s \in Sessions, ok \in BOOLEAN :
      \A x \in ParamsOf(op), a \in HandlesOf(op) :
        ReachesCooldown(op, t, s) =>
          LET k == KindOf(op)
              c == Get(cfg.cooldowns, k, 0)
              r == Request(World, op, t, s, a, x, ok)
          IN  IF c > 0 /\ k \in DOMAIN lastPass /\ now - lastPass[k] < c
              THEN r.out = "CooldownActive" /\ r.drv = {} /\ r.w.lp = lastPass
              ELSE r.out # "CooldownActive" /\ r.w.lp = Put(lastPass, k, now)

\* press has just been refused half a window after it last passed its
\* cooldown, which lasts a whole window; the refusal left the time of the
\* last pass as it was
C7_Witness ==
    /\ last.op = "press" /\ last.out = "CooldownActive" /\ last.drv = {}
    /\ "press" \in DOMAIN lastPass /\ now - lastPass["press"] = TickStep
    /\ LAST_ACTION["press"] = lastPass["press"]

----------------------------------------------------------------------------
\* the requests that passed the rate check in the 60 seconds that end at T
InWindow(T) == {i \in DOMAIN passed : passed[i] <= T /\ T - passed[i] < RateWindow}

\* C9: with rate cap N, over all routes together: at most N requests pass
\* the rate check within any trailing 60-second window; when N have passed
\* within the window that ends now, a further request fails with RateLimited
\* and records no timestamp; when fewer have, and in particular once the
\* earliest recorded timestamp is 60 seconds old or older, it passes.
C9_RateWindow ==
    /\ \A T \in {passed[i] : i \in DOMAIN passed} \cup {now} :
         Cardinality(InWindow(T)) <= cfg.rate
    /\ \A op \in AllOps, t \in Tokens, s \in Sessions, ok \in BOOLEAN :
         \A x \in ParamsOf(op), a \in HandlesOf(op) :
           ReachesRate(op, t, s) =>
             LET r == Request(World, op, t, s, a, x, ok) IN
             /\ Cardinality(InWindow(now)) >= cfg.rate =>
                  /\ r.out = "RateLimited" /\ r.drv = {}
                  /\ r.w.ps = passed /\ r.w.ts = REQUEST_TIMESTAMPS
             /\ (Cardinality(InWindow(now)) < cfg.rate
                   \/ (REQUEST_TIMESTAMPS # <<>>
                         /\ now - REQUEST_TIMESTAMPS[1] >= RateWindow)) =>
                  /\ r.out # "RateLimited"
                  /\ r.w.ps = Append(passed, now)
                  /\ r.w.ts # <<>> /\ r.w.ts[Len(r.w.ts)] = now

\* the window is full again after it had slid past the first requests, and
\* one more request is refused
C9_Witness ==
    /\ Cardinality(InWindow(now)) = cfg.rate
    /\ Len(passed) > cfg.rate
    /\ passed[1] + RateWindow <= now
    /\ \E t \in Tokens, s \in Sessions :
         /\ ReachesRate("click", t, s)
         /\ click(World, t, s, "p1", TRUE, TRUE).out = "RateLimited"

----------------------------------------------------------------------------
(* SpecUI: traversals and UI actions.  The focused application may change  *)
(* or go away between requests, the audit log may be unwritable; the clock *)
(* stands still and the rate cap bounds the requests.                      *)
CfgUI ==
    [token |-> None, ttl |-> DEFAULT_TTL, rate |-> 5, cooldowns |-> EmptyDict,
     allowlist |-> {}, apps |-> {"Safari"}, quartz |-> TRUE]

InitUI == InitWith({CfgUI}, {App, None})

NextUI ==
    \/ ServeSession
    \/ FocusChange
    \/ ServeUiTreeFull(Depths, BOOLEAN)
    \/ ServeUiSearch({"ok", "zz"}, {1}, BOOLEAN)
    \/ ServeUiClick({TRUE}, BOOLEAN)
    \/ ServeUiSet({TRUE}, BOOLEAN)
    \/ ServeUiFocus({TRUE}, BOOLEAN)
    \/ ServeUiScroll({TRUE}, BOOLEAN)

SpecUI == InitUI /\ [][NextUI]_vars

\* the element ids handed out by traversals that a later traversal superseded
Stale == {e \in 1..(nextEl - 1) : e < travStart}

\* the request reaches the lookup in UI_ELEMENT_INDEX: it passes the gates
\* and, for ui_click, presents a pending handle of kind "press"
ReachesLookup(op, t, s, a) ==
    /\ gates(World, RouteOf(op), t, s, IF op = "ui_click" THEN "ui_click" ELSE None).out
         = "pass"
    /\ op = "ui_click" =>
         (a \in DOMAIN PENDING_CONFIRMATIONS /\ PENDING_CONFIRMATIONS[a] = "press")

\* C10: an element id handed out by a traversal resolves to no element in
\* any UI action (click, set value, focus, scroll) served after a later
\* traversal has started, whether that traversal visited the same native
\* element or found no focused application: the id is not in the registry,
\* the action calls no driver, and when it reaches the lookup it fails with
\* NotFound.
C10_StaleHandle ==
    \A e \in Stale :
      /\ e \notin DOMAIN UI_ELEMENT_INDEX
      /\ \A op \in HandleOps \cup {"ui_click"}, t \in Tokens, s \in Sessions,
            a \in Handles, ok \in BOOLEAN :
           LET r == Request(World, op, t, s, a, e, ok) IN
           /\ r.drv = {}
           /\ ReachesLookup(op, t, s, a) => r.out = "NotFound"

\* a second traversal registered the application element again, under a new
\* id, and a UI action has just failed with NotFound on the only other id a
\* client can hold, the one of the first traversal
C10_Witness ==
    /\ travStart = 2 /\ nextEl > 2 /\ Stale = {1}
    /\ travStart \in DOMAIN UI_ELEMENT_INDEX /\ UI_ELEMENT_INDEX[travStart] = App
    /\ DOMAIN UI_ELEMENT_INDEX = {2}
    /\ last.op = "ui_set" /\ last.out = "NotFound" /\ last.drv = {}

------------------------------------------------------------------------

----------------------------------------------------------------------------
(* SpecConc: the handlers are plain `def` routes, which the framework runs *)
(* on a pool of worker threads.  A thread may be preempted between any two *)
(* accesses to the shared dictionaries; one dictionary operation (get, in, *)
(* pop, item assignment) is atomic.  Requests of /press and /confirm are   *)
(* followed through _cooldown and through their accesses to                *)
(* PENDING_CONFIRMATIONS, which are the accesses the properties of this    *)
(* specification are about.  The other statements are taken together with  *)
(* a neighbouring step: the gates before _cooldown with its reading of the *)
(* clock; the insertion of a fresh handle, the driver call and the audit   *)
(* record with the pop of the confirmation gate.                           *)
(* th is the list of the requests that have arrived:                       *)
(*   op, a : the route and the confirmation handle presented               *)
(*   pc    : the statement the thread is about to execute                  *)
(*   t     : `now` as _cooldown read it         cd : _cooldown has passed  *)
(*   got   : the handle whose pending entry the thread removed             *)
(*   exec  : the thread called the driver       out: the outcome, if done  *)
MaxReq == 3            \* requests that arrive

CfgConc ==
    [token |-> None, ttl |-> DEFAULT_TTL, rate |-> 3,
     cooldowns |-> [k \in {"press"} |-> 2 * TickStep],
     allowlist |-> {}, apps |-> {"Safari"}, quartz |-> TRUE]

InitConc == InitWith({CfgConc}, {App})

\* the clock advances while requests are in progress, up to one cooldown
TickConc == now < StartTime + 2 * TickStep /\ Tick

Done(i, outcome) == [th EXCEPT ![i].pc = "done", ![i].out = outcome]

\* a request as it arrives
Arrived(op, a) ==
    [op |-> op, a |-> a, pc |-> "enter", t |-> 0, cd |-> FALSE, got |-> NoId,
     exec |-> FALSE, out |-> None]

\* press_keys, lines 259-262 and 197: a request arrives and passes
\* _endpoint_allow, _auth, _session_auth and _rate_limit; _cooldown reads
\* the clock
EnterPress ==
    \E s \in Sessions, a \in Handles :
        LET g == gates(World, "/press", None, s, None)
            i == Len(th) + 1
            new == Append(th, Arrived("press", a)) IN
        /\ Len(th) < MaxReq
        /\ SESSION_TOKENS' = g.w.st
        /\ REQUEST_TIMESTAMPS' = g.w.ts
        /\ passed' = g.w.ps
        /\ th' = IF g.out = "pass"
                 THEN [new EXCEPT ![i].pc = "cd_check", ![i].t = now]
                 ELSE [new EXCEPT ![i].pc = "done", ![i].out = g.out]
        /\ UNCHANGED <<cfg, now, PENDING_CONFIRMATIONS, LAST_ACTION, UI_ELEMENT_INDEX,
                       audit, focused, nextSess, nextConf, nextEl, last, issuer,
                       travStart, lastPass>>

\* _cooldown, lines 198-201: read LAST_ACTION, compare with the time read
CooldownCheck ==
    \E i \in DOMAIN th :
        /\ th[i].pc = "cd_check"
        /\ th' = IF cooldown(LAST_ACTION, "press", th[i].t).ok
                 THEN [th EXCEPT ![i].pc = "cd_store"]
                 ELSE Done(i, "CooldownActive")
        /\ UNCHANGED <<cfg, now, SESSION_TOKENS, PENDING_CONFIRMATIONS, LAST_ACTION,
                       REQUEST_TIMESTAMPS, UI_ELEMENT_INDEX, audit, focused,
                       nextSess, nextConf, nextEl, last, issuer, travStart,
                       lastPass, passed>>

\* _cooldown, line 202: LAST_ACTION[action] = now
CooldownStore ==
    \E i \in DOMAIN th :
        /\ th[i].pc = "cd_store"
        /\ LAST_ACTION' = Put(LAST_ACTION, "press", th[i].t)
        /\ th' = [th EXCEPT ![i].pc = "guard", ![i].cd = TRUE]
        /\ UNCHANGED <<cfg, now, SESSION_TOKENS, PENDING_CONFIRMATIONS,
                       REQUEST_TIMESTAMPS, UI_ELEMENT_INDEX, audit, focused,
                       nextSess, nextConf, nextEl, last, issuer, travStart,
                       lastPass, passed>>

\* press_keys, lines 264-269: the confirmation gate, whose pop is atomic,
\* then either a new handle or the hotkey and its audit record
Guard ==
    \E i \in DOMAIN th, drvOk \in BOOLEAN :
        LET a == th[i].a
            cg == confirm_gate(World, a, "press") IN
        /\ th[i].pc = "guard"
        /\ cg.w.nc <= MaxConf + 1
        /\ PENDING_CONFIRMATIONS' = cg.w.pc
        /\ nextConf' = cg.w.nc
        /\ issuer' = IF cg.issued # NoId
                     THEN Put(issuer, cg.issued, [op |-> "press", arg |-> "k1"])
                     ELSE issuer
        /\ audit' = IF cg.pass /\ drvOk
                    THEN audit_write(audit, "press", redact([keys |-> "k1"]), TRUE)
                    ELSE audit
        /\ Len(audit') <= MaxAudit
        /\ th' = [Done(i, IF ~cg.pass THEN "NeedsConfirmation"
                          ELSE IF drvOk THEN "ok" ELSE "InternalError")
                    EXCEPT ![i].exec = cg.pass,
                           ![i].got = IF a # NoId /\ a \in DOMAIN PENDING_CONFIRMATIONS
                                      THEN a ELSE NoId]
        /\ UNCHANGED <<cfg, now, SESSION_TOKENS, LAST_ACTION,
                       REQUEST_TIMESTAMPS, UI_ELEMENT_INDEX, focused,
                       nextSess, nextEl, last, travStart, lastPass, passed>>

\* confirm, lines 225-227 and 230: a request arrives and passes _auth and
\* _session_auth; if req.action_id in PENDING_CONFIRMATIONS
ConfirmIn ==
    \E s \in Sessions, a \in Handles \ {NoId} :
        LET sa == session_auth(SESSION_TOKENS, s, now)
            i == Len(th) + 1
            new == Append(th, Arrived("confirm", a)) IN
        /\ Len(th) < MaxReq
        /\ SESSION_TOKENS' = sa.st
        /\ th' = [new EXCEPT
                    ![i].pc = IF auth(None) /\ sa.ok /\ a \in DOMAIN PENDING_CONFIRMATIONS
                              THEN "c_pop" ELSE "done",
                    ![i].out = IF ~(auth(None) /\ sa.ok) THEN "Unauthorized"
                               ELSE IF a \in DOMAIN PENDING_CONFIRMATIONS THEN None
                               ELSE "NotFound"]
        /\ UNCHANGED <<cfg, now, PENDING_CONFIRMATIONS, LAST_ACTION,
                       REQUEST_TIMESTAMPS, UI_ELEMENT_INDEX, audit, focused,
                       nextSess, nextConf, nextEl, last, issuer, travStart,
                       lastPass, passed>>

\* confirm, lines 228-229: PENDING_CONFIRMATIONS.pop(req.action_id), which
\* raises KeyError when the entry is gone; the framework answers 500
ConfirmPop ==
    \E i \in DOMAIN th :
        LET a == th[i].a IN
        /\ th[i].pc = "c_pop"
        /\ PENDING_CONFIRMATIONS' = Pop(PENDING_CONFIRMATIONS, a)
        /\ th' = IF a \in DOMAIN PENDING_CONFIRMATIONS
                 THEN [Done(i, "ok") EXCEPT ![i].got = a]
                 ELSE Done(i, "InternalError")
        /\ UNCHANGED <<cfg, now, SESSION_TOKENS, LAST_ACTION,
                       REQUEST_TIMESTAMPS, UI_ELEMENT_INDEX, audit, focused,
                       nextSess, nextConf, nextEl, last, issuer, travStart,
                       lastPass, passed>>

NextConc ==
    \/ TickConc
    \/ ServeSession
    \/ EnterPress
    \/ CooldownCheck
    \/ CooldownStore
    \/ Guard
    \/ ConfirmIn
    \/ ConfirmPop

SpecConc == InitConc /\ [][NextConc]_vars

----------------------------------------------------------------------------
\* the requests that removed the pending entry of handle h
Consumers(h) == {i \in DOMAIN th : th[i].got = h}

\* the requests that executed the sensitive action on presenting handle h
Executions(h) == {i \in DOMAIN th : th[i].exec /\ th[i].a = h}

\* C3: in every interleaving a handle satisfies at most one guarded call: at
\* most one of the requests that present it consumes it, at most one
\* sensitive action executes on its account, and every /confirm call with a
\* valid session ends in success or in NotFound.
C3_OneTimeUse ==
    /\ \A h \in Handles \ {NoId} :
         Cardinality(Consumers(h)) <= 1 /\ Cardinality(Executions(h)) <= 1
    /\ \A i \in DOMAIN th :
         (th[i].op = "confirm" /\ th[i].pc = "done" /\ th[i].out # "Unauthorized") =>
             th[i].out \in {"ok", "NotFound"}

\* The part of C3 that does hold: at most one request consumes a handle and
\* at most one action executes on its account.
C3_AtMostOnce ==
    \A h \in Handles \ {NoId} :
        Cardinality(Consumers(h)) <= 1 /\ Cardinality(Executions(h)) <= 1

----------------------------------------------------------------------------
\* the absolute difference of two times
Apart(t1, t2) == IF t1 >= t2 THEN t1 - t2 ELSE t2 - t1

\* C8: two requests of an action kind with cooldown c > 0 that arrive less
\* than c apart do not both pass the cooldown check, however their reads and
\* writes of LAST_ACTION interleave; and the stored time of a kind never
\* decreases: it is never earlier than a time some request has stored.
C8_CooldownSerialized ==
    /\ \A i, j \in DOMAIN th :
         (i # j /\ th[i].cd /\ th[j].cd /\ th[i].op = th[j].op) =>
             Apart(th[i].t, th[j].t) >= cfg.cooldowns[th[i].op]
    /\ \A i \in DOMAIN th :
         th[i].cd => LAST_ACTION[th[i].op] >= th[i].t

\* The second part of C8 alone, as a property of every step.
C8_NeverDecreases ==
    [][\A k \in DOMAIN LAST_ACTION : LAST_ACTION'[k] >= LAST_ACTION[k]]_vars

----------------------------------------------------------------------------
(* SpecReg: traversals on worker threads.  ui_tree_full clears the         *)
(* registry (402) and _ax_to_node then registers one node at a time (377), *)
(* with no lock; a thread may be preempted between any two of these        *)
(* dictionary operations.  UI actions by element id (ui_focus) are served  *)
(* in between.  A traversal in th:                                         *)
(*   pc   : "build" while _ax_to_node runs, then "done"                    *)
(*   todo : the native elements still to be registered, in visiting order  *)
(*   ids  : the element ids the traversal has registered so far            *)
(*   out  : the outcome, if done                                           *)
RegDepth == 1          \* max_depth of the traversals of SpecReg

InitReg == InitWith({CfgUI}, {App})

\* ui_tree_full, lines 397-409: a request arrives, passes the gates and the
\* Quartz check, clears the registry and finds the focused application
TraverseStart ==
    \E s \in Sessions :
        LET g == gates(World, "/ui_tree/full", None, s, None)
            t == traverse(g.w, 0)
            started == g.out = "pass" /\ t.out = "ok" IN
        /\ Len(th) < MaxReq
        /\ SESSION_TOKENS' = g.w.st
        /\ REQUEST_TIMESTAMPS' = g.w.ts
        /\ passed' = g.w.ps
        /\ UI_ELEMENT_INDEX' = IF g.out = "pass" THEN EmptyDict ELSE UI_ELEMENT_INDEX
        /\ travStart' = IF g.out = "pass" THEN nextEl ELSE travStart
        /\ th' = Append(th, [op |-> "ui_tree_full",
                             pc |-> IF started THEN "build" ELSE "done",
                             todo |-> IF started THEN ax_to_node(focused, 0, RegDepth)
                                      ELSE <<>>,
                             ids |-> <<>>,
                             out |-> IF started THEN None
                                     ELSE IF g.out = "pass" THEN t.out ELSE g.out])
        /\ UNCHANGED <<cfg, now, PENDING_CONFIRMATIONS, LAST_ACTION, audit, focused,
                       nextSess, nextConf, nextEl, last, issuer, lastPass>>

\* _ax_to_node, lines 376-377: element_id = str(uuid4());
\* UI_ELEMENT_INDEX[element_id] = element
RegisterNode ==
    \E i \in DOMAIN th :
        /\ th[i].pc = "build" /\ th[i].todo # <<>>
        /\ UI_ELEMENT_INDEX' = Put(UI_ELEMENT_INDEX, nextEl, Head(th[i].todo))
        /\ nextEl' = nextEl + 1
        /\ th' = [th EXCEPT ![i].todo = Tail(@), ![i].ids = Append(@, nextEl)]
        /\ UNCHANGED <<cfg, now, SESSION_TOKENS, PENDING_CONFIRMATIONS, LAST_ACTION,
                       REQUEST_TIMESTAMPS, audit, focused, nextSess, nextConf,
                       last, issuer, travStart, lastPass, passed>>

\* ui_tree_full, lines 412-413: the audit record and the answer
TraverseEnd ==
    \E i \in DOMAIN th, writable \in BOOLEAN :
        /\ th[i].pc = "build" /\ th[i].todo = <<>>
        /\ audit' = audit_write(audit, "ui_tree_full", [max_depth |-> RegDepth], writable)
        /\ Len(audit') <= MaxAudit
        /\ th' = [th EXCEPT ![i].pc = "done", ![i].out = "ok"]
        /\ UNCHANGED <<cfg, now, SESSION_TOKENS, PENDING_CONFIRMATIONS, LAST_ACTION,
                       REQUEST_TIMESTAMPS, UI_ELEMENT_INDEX, focused, nextSess,
                       nextConf, nextEl, last, issuer, travStart, lastPass, passed>>

NextReg ==
    \/ ServeSession
    \/ TraverseStart
    \/ RegisterNode
    \/ TraverseEnd
    \/ ServeUiFocus({TRUE}, {FALSE})

SpecReg == InitReg /\ [][NextReg]_vars

\* the handles of traversal i: the ids of all the nodes it visits
HandleSet(i) == {th[i].ids[k] : k \in DOMAIN th[i].ids}
Completed == {i \in DOMAIN th : th[i].pc = "done" /\ th[i].out = "ok"}

\* the registry is empty or holds exactly the handles of one completed traversal
WholeRegistry ==
    \/ UI_ELEMENT_INDEX = EmptyDict
    \/ \E i \in Completed : DOMAIN UI_ELEMENT_INDEX = HandleSet(i)

\* C11: whatever the interleaving of traversals and resolves, every registry
\* state a request can observe is empty or exactly the full handle set of
\* one completed traversal: never partially filled, never a mix of the
\* handles of two traversals.
C11_AtomicRebuild == WholeRegistry

\* Even when every traversal has completed, the registry that is left can
\* mix the handles of two traversals.
C11_QuiescentWhole ==
    (\A i \in DOMAIN th : th[i].pc = "done") => WholeRegistry

----------------------------------------------------------------------------
SensitiveFields == {"text", "script", "value", "token"}

\* C12: in every audit record appended by any operation, each payload field
\* named text, script, value or token holds the redaction marker, never the
\* value the caller sent.
C12_AuditRedacted ==
    \A i \in DOMAIN audit :
        \A k \in DOMAIN audit[i].payload \cap SensitiveFields :
            audit[i].payload[k] = REDACTED

----------------------------------------------------------------------------
(* The routes that call no gate: /health, /screenshot, /ui_tree, /ocr,     *)
(* /cursor and /screen read no header and touch no store.                  *)
(* tesseract: the pytesseract import succeeded (lines 24-27).              *)

\* GET /health (209-211)
health(w) == Ret(w, "ok", {}, NoId, <<>>)

\* GET /screenshot (310-319)
screenshot(w, drvOk) ==
    IF ~drvOk THEN Ret(w, "InternalError", {"grab"}, NoId, <<>>)
    ELSE Ret(w, "ok", {"grab"}, NoId, <<>>)

\* GET /ui_tree (340-362)
ui_tree(w, drvOk) ==
    IF ~drvOk THEN Ret(w, "ActionFailed", {"osascript"}, NoId, <<>>)
    ELSE Ret(w, "ok", {"osascript"}, NoId, <<>>)

\* POST /ocr (561-578)
ocr(w, tesseract, drvOk) ==
    IF ~tesseract THEN Ret(w, "BadRequest", {}, NoId, <<>>)
    ELSE IF ~drvOk THEN Ret(w, "InternalError", {"grab"}, NoId, <<>>)
    ELSE Ret(w, "ok", {"grab", "image_to_string"}, NoId, <<>>)

\* GET /cursor (581-584)
cursor_position(w, drvOk) ==
    IF ~drvOk THEN Ret(w, "InternalError", {"position"}, NoId, <<>>)
    ELSE Ret(w, "ok", {"position"}, NoId, <<>>)

\* GET /screen (587-590)
screen_size(w, drvOk) ==
    IF ~drvOk THEN Ret(w, "InternalError", {"size"}, NoId, <<>>)
    ELSE Ret(w, "ok", {"size"}, NoId, <<>>)

OpenRoutes == {"health", "screenshot", "ui_tree", "ocr", "cursor", "screen"}

OpenRoute(w, op, tesseract, drvOk) ==
    CASE op = "health" -> health(w)
      [] op = "screenshot" -> screenshot(w, drvOk)
      [] op = "ui_tree" -> ui_tree(w, drvOk)
      [] op = "ocr" -> ocr(w, tesseract, drvOk)
      [] op = "cursor" -> cursor_position(w, drvOk)
      [] op = "screen" -> screen_size(w, drvOk)

\* a request to one of these routes is served; the stores stay as they are
ServeOpenRoute(Ops, Oks) ==
    \E op \in Ops, tesseract \in BOOLEAN, ok \in Oks :
        LET r == OpenRoute(World, op, tesseract, ok) IN
        /\ last' = [op |-> op, out |-> r.out, drv |-> r.drv]
        /\ UNCHANGED <<cfg, now, SESSION_TOKENS, PENDING_CONFIRMATIONS, LAST_ACTION,
                       REQUEST_TIMESTAMPS, UI_ELEMENT_INDEX, audit, focused, nextSess,
                       nextConf, nextEl, issuer, travStart, lastPass, passed, th>>

\* every route of the request surface but /session
Routes == AllOps \cup OpenRoutes \cup {"confirm"}

PathOfRoute(op) ==
    CASE op = "health" -> "/health" [] op = "screenshot" -> "/screenshot"
      [] op = "ui_tree" -> "/ui_tree" [] op = "ocr" -> "/ocr"
      [] op = "cursor" -> "/cursor" [] op = "screen" -> "/screen"
      [] op = "confirm" -> "/confirm" [] OTHER -> RouteOf(op)

InputsOf(op) ==
    IF op \in OpenRoutes \cup {"confirm", "ui_click", "ui_focus", "ui_scroll"} THEN {None}
    ELSE IF op = "ui_set" THEN Values
    ELSE ParamsOf(op)

\* the element a UI action names
ElementsOf(op) == IF op \in HandleOps \cup {"ui_click"} THEN ElementIds ELSE {NoId}

\* the result of serving a request to op: token t, session s, confirmation
\* handle a, element id e, parameter x; env: the driver returns, the audit
\* log is writable, pytesseract is installed
Answer(w, op, t, s, a, e, x, env) ==
    CASE op = "click" -> click(w, t, s, x, env.ok, env.wr)
      [] op = "type" -> type_text(w, t, s, x, env.ok, env.wr)
      [] op = "press" -> press_keys(w, t, s, a, x, env.ok, env.wr)
      [] op = "open_app" -> open_app(w, t, s, a, x, env.ok, env.wr)
      [] op = "run_applescript" -> run_applescript(w, t, s, a, x, env.ok, env.wr)
      [] op = "shortcuts_run" -> run_shortcut(w, t, s, a, x, env.ok, env.wr)
      [] op = "ui_tree_full" -> ui_tree_full(w, t, s, x, env.wr)
      [] op = "ui_search" -> ui_search(w, t, s, x, 2, env.wr)
      [] op = "ui_click" -> ui_click(w, t, s, a, e, env.ok, env.wr)
      [] op = "ui_click_text" -> ui_click_text(w, t, s, a, x, 2, env.ok, env.wr, TRUE)
      [] op = "ui_set" -> ui_set(w, t, s, e, x, env.ok, env.wr)
      [] op = "ui_focus" -> ui_focus(w, t, s, e, env.ok, env.wr)
      [] op = "ui_scroll" -> ui_scroll(w, t, s, e, env.ok, env.wr)
      [] op = "confirm" -> confirm(w, t, s, a)
      [] OTHER -> OpenRoute(w, op, env.tess, env.ok)

Envs == [ok : BOOLEAN, wr : BOOLEAN, tess : BOOLEAN]

----------------------------------------------------------------------------
(* SpecPolicy: two deployments.  The closed one has a deployment secret,   *)
(* an endpoint allowlist, sessions that live for half a rate window, two   *)
(* requests per window and a cooldown on click; the open one has none of   *)
(* these but the rate cap.  The clock advances between requests.           *)
Secret == "s3cret"

CfgClosed ==
    [token |-> Secret, ttl |-> TickStep, rate |-> 2,
     cooldowns |-> [k \in {"click"} |-> 2 * TickStep],
     allowlist |-> {"/click", "/press", "/ui_search", "/ui_set"},
     apps |-> {"Safari"}, quartz |-> TRUE]

CfgOpen ==
    [token |-> None, ttl |-> 2 * TickStep, rate |-> 2, cooldowns |-> EmptyDict,
     allowlist |-> {}, apps |-> {"Safari"}, quartz |-> TRUE]

InitPolicy == InitWith({CfgClosed, CfgOpen}, {App})

\* POST /session, served until MaxSess + 1 tokens have been issued, so that
\* the table can hold a token beside the one the requests present
ServeLogin ==
    \E t \in Tokens :
        LET r == create_session(SESSION_TOKENS, t, nextSess) IN
        /\ nextSess <= MaxSess + 1
        /\ SESSION_TOKENS' = r.st
        /\ nextSess' = IF r.out = "ok" THEN nextSess + 1 ELSE nextSess
        /\ last' = IF r.st = SESSION_TOKENS THEN last
                   ELSE [op |-> "session", out |-> r.out, drv |-> {}]
        /\ UNCHANGED <<cfg, now, PENDING_CONFIRMATIONS, LAST_ACTION, REQUEST_TIMESTAMPS,
                       UI_ELEMENT_INDEX, audit, focused, nextConf, nextEl, issuer,
                       travStart, lastPass, passed, th>>

\* the clock advances up to the expiry of the sessions and of the cooldown
TickPolicy == now < StartTime + 3 * TickStep /\ Tick

NextPolicy ==
    \/ TickPolicy
    \/ ServeLogin
    \/ ServeClick({TRUE}, {TRUE})
    \/ ServeOpenApp({TRUE}, {TRUE})
    \/ ServeUiSearch({"ok"}, {1}, {FALSE})
    \/ ServeOpenRoute({"screenshot"}, {TRUE})

SpecPolicy == InitPolicy /\ [][NextPolicy]_vars

----------------------------------------------------------------------------
\* the action kind a route passes to _cooldown, None if it calls none
GateKind(op) == IF op \in CooledOps THEN KindOf(op) ELSE None

\* the request passes the allowlist, secret, session, rate and cooldown checks
PassesGates(op, t, s) == gates(World, PathOfRoute(op), t, s, GateKind(op)).out = "pass"

\* C13: a request to any route reaches an OS driver only after the endpoint
\* allowlist check, the session validation, the rate check and the cooldown
\* check have passed within that request; no driver call is made for a
\* request without a valid session token.
C13_GatesBeforeDriver ==
    \A op \in Routes, t \in Tokens, s \in Sessions, env \in Envs :
      \A a \in HandlesOf(op), e \in ElementsOf(op), x \in InputsOf(op) :
        Answer(World, op, t, s, a, e, x, env).drv # {}
            => /\ PassesGates(op, t, s)
               /\ session_auth(SESSION_TOKENS, s, now).ok

----------------------------------------------------------------------------
\* the outcomes with which a gate ends a request
GateFailure(op, out) ==
    \/ out \in {"Forbidden", "Unauthorized", "RateLimited", "CooldownActive",
                "NeedsConfirmation", "BadRequest"}
    \/ out = "NotFound" /\ op \in HandleOps \cup {"ui_click"}

\* C14: a request that ends with a gate failure (Forbidden, Unauthorized,
\* RateLimited, CooldownActive, the NeedsConfirmation deferral, NotFound for
\* an unknown UI handle, BadRequest) has made no OS driver call and written
\* no audit record; a request writes an audit record only if its driver
\* call returned successfully.
C14_FailsBeforeDriverAndAudit ==
    \A op \in Routes, t \in Tokens, s \in Sessions, env \in Envs :
      \A a \in HandlesOf(op), e \in ElementsOf(op), x \in InputsOf(op) :
        LET r == Answer(World, op, t, s, a, e, x, env) IN
        /\ GateFailure(op, r.out) => r.drv = {} /\ r.w.log = audit
        /\ r.w.log # audit => r.out = "ok" /\ r.drv # {}

\* a click has been executed and audited, and the cooldown now refuses the
\* next one, which would leave the log as it is
C14_Witness ==
    /\ last.op = "click" /\ last.out = "ok" /\ Len(audit) = 1
    /\ \E t \in Tokens, s \in Sessions :
          LET r == click(World, t, s, "p1", TRUE, TRUE) IN
          r.out = "CooldownActive" /\ r.w.log = audit /\ r.drv = {}

----------------------------------------------------------------------------
\* the filter rejects the route: the allowlist is non-empty and lacks its path
Unlisted(op) == cfg.allowlist # {} /\ PathOfRoute(op) \notin cfg.allowlist

\* C15: with a non-empty endpoint allowlist, a request to any route that is
\* not in the allowlist fails with Forbidden, leaves the session table, the
\* rate window, the cooldown timestamps, the pending confirmations and the
\* handle registry unchanged and makes no driver call.
C15_ClosedAllowlist ==
    \A op \in Routes, t \in Tokens, s \in Sessions, env \in Envs :
      \A a \in HandlesOf(op) \cup (IF op = "confirm" THEN Handles ELSE {}),
         e \in ElementsOf(op), x \in InputsOf(op) :
        LET r == Answer(World, op, t, s, a, e, x, env) IN
        Unlisted(op) => r.out = "Forbidden" /\ r.w = World /\ r.drv = {}

\* The routes that call _endpoint_allow do behave so.
C15_ClosedAllowlistGated ==
    \A op \in AllOps, t \in Tokens, s \in Sessions, env \in Envs :
      \A a \in HandlesOf(op), e \in ElementsOf(op), x \in InputsOf(op) :
        LET r == Answer(World, op, t, s, a, e, x, env) IN
        Unlisted(op) => r.out = "Forbidden" /\ r.w = World /\ r.drv = {}

----------------------------------------------------------------------------
\* the session tokens a client may present: none, the issued ones, an unknown one
AnyToken == 0..(MaxSess + 2)

\* the session table st with the entry of token k left out
Without(st, k) == [x \in DOMAIN st \ {k} |-> st[x]]

\* C16: createSession with a configured deployment secret and a presented
\* secret that does not match fails with Unauthorized and adds no token;
\* otherwise it adds a fresh token with expiry now + TTL.  Validation of a
\* token passes exactly when the token is in the table and the current time
\* is not past its expiry; an absent, unknown or expired token fails (the
\* request answers Unauthorized), an expired token is removed from the table
\* by that failed validation, and no other token's entry changes.
C16_SessionLifecycle ==
    /\ \A t \in Tokens \cup {None} :
          LET r == create_session(SESSION_TOKENS, t, nextSess) IN
          IF cfg.token # None /\ t # cfg.token
          THEN r.out = "Unauthorized" /\ r.st = SESSION_TOKENS
          ELSE /\ r.out = "ok"
               /\ nextSess \notin DOMAIN SESSION_TOKENS
               /\ DOMAIN r.st = DOMAIN SESSION_TOKENS \cup {nextSess}
               /\ r.st[nextSess] = now + cfg.ttl
               /\ Without(r.st, nextSess) = SESSION_TOKENS
    /\ \A s \in AnyToken :
          LET v == session_auth(SESSION_TOKENS, s, now)
              valid == s \in DOMAIN SESSION_TOKENS /\ now <= SESSION_TOKENS[s] IN
          /\ v.ok <=> valid
          /\ valid => v.st = SESSION_TOKENS
          /\ ~valid => s \notin DOMAIN v.st
          /\ Without(v.st, s) = Without(SESSION_TOKENS, s)
          /\ \A t \in Tokens, env \in Envs :
                LET r == click(World, t, s, "p1", env.ok, env.wr) IN
                endpoint_allow("/click") /\ auth(t) /\ ~valid
                    => r.out = "Unauthorized" /\ r.drv = {} /\ r.w.st = v.st

\* with a deployment secret configured, a request presented the first token
\* after its expiry: it was refused and the token evicted, while the second
\* token, still valid, kept its entry
C16_Witness ==
    /\ cfg.token # None
    /\ last.op = "click" /\ last.out = "Unauthorized"
    /\ nextSess = 3
    /\ DOMAIN SESSION_TOKENS = {2}
    /\ now <= SESSION_TOKENS[2]

----------------------------------------------------------------------------
\* the ids a search for query finds now, in traversal order
MatchesNow(query) ==
    search_tree(ax_to_node(focused, 0, 2), nextEl, lower(QueryText[query]))

\* C17: ui_click_text presented with a valid session and a pending handle of
\* its kind runs a search; when the search has a match the press action is
\* performed (on the first match) and the request reports success; when it
\* has none the request fails with NotFound and performs no press.
C17_ClickByText ==
    \A t \in Tokens, s \in Sessions, q \in Queries, hh \in BOOLEAN :
      \A h \in DOMAIN PENDING_CONFIRMATIONS :
        (/\ EarlierGatesPass("ui_click_text", t, s, q)
         /\ focused # None
         /\ PENDING_CONFIRMATIONS[h] = "press")
        => LET r == ui_click_text(World, t, s, h, q, 2, TRUE, TRUE, hh) IN
           IF MatchesNow(q) # <<>>
           THEN r.out = "ok" /\ "AXPress" \in r.drv
           ELSE r.out = "NotFound" /\ "AXPress" \notin r.drv

----------------------------------------------------------------------------
\* the nodes of a returned tree, each with its depth
RECURSIVE NodesOf(_, _)
NodesOf(node, depth) ==
    {[node |-> node, depth |-> depth]} \cup
    UNION {NodesOf(node.children[i], depth + 1) : i \in DOMAIN node.children}

\* C18: after a traversal by ui_tree_full(max_depth) served on its own, the
\* registry holds exactly the handles of the nodes of the returned tree,
\* each handle distinct and mapped to the native element of its node; every
\* node at a depth below max_depth has one child per child the provider
\* reports, in the provider's order, and every node at depth max_depth is
\* returned without children.
C18_RegistryIsTree ==
    \A t \in Tokens, s \in Sessions, d \in Depths :
        LET r == ui_tree_full(World, t, s, d, TRUE) IN
        r.out = "ok" =>
          LET ns == NodesOf(r.res[1], 0) IN
          /\ DOMAIN r.w.idx = {n.node.id : n \in ns}
          /\ \A m, n \in ns : m.node.id = n.node.id => m = n
          /\ \A n \in ns :
                /\ r.w.idx[n.node.id] = n.node.element
                /\ n.depth <= d
                /\ n.depth = d => n.node.children = <<>>
                /\ n.depth < d =>
                      LET kids == NativeChildren[n.node.element] IN
                      /\ Len(n.node.children) = Len(kids)
                      /\ \A i \in DOMAIN kids : n.node.children[i].element = kids[i]

\* a traversal of the whole application has registered its four nodes, and
\* another traversal can be served
C18_Witness ==
    /\ last.op = "ui_tree_full" /\ last.out = "ok"
    /\ Cardinality(DOMAIN UI_ELEMENT_INDEX) = 4
    /\ \E t \in Tokens, s \in Sessions :
          ui_tree_full(World, t, s, 1, TRUE).out = "ok"

----------------------------------------------------------------------------
\* C19: a failure to append the audit record never changes the outcome of
\* the request: served with an unwritable log, every request answers as it
\* does with a writable one, makes the same driver calls and leaves the
\* same stores; the log alone differs (it is left as it was).
C19_AuditFailureSwallowed ==
    \A op \in Routes, t \in Tokens, s \in Sessions, ok \in BOOLEAN :
      \A a \in HandlesOf(op), e \in ElementsOf(op), x \in InputsOf(op) :
        LET good == Answer(World, op, t, s, a, e, x, [ok |-> ok, wr |-> TRUE, tess |-> TRUE])
            bad == Answer(World, op, t, s, a, e, x, [ok |-> ok, wr |-> FALSE, tess |-> TRUE])
        IN  /\ bad.out = good.out /\ bad.drv = good.drv
            /\ bad.issued = good.issued /\ bad.res = good.res
            /\ [bad.w EXCEPT !.log = <<>>] = [good.w EXCEPT !.log = <<>>]
            /\ bad.w.log = audit

\* a search was executed while the log could not be written: it succeeded,
\* registered its elements and left no audit record
C19_Witness ==
    /\ last.op = "ui_search" /\ last.out = "ok"
    /\ UI_ELEMENT_INDEX # EmptyDict
    /\ audit = <<>>

----------------------------------------------------------------------------
\* the action kind a sensitive route passes to the confirmation gate
ConfirmKind(op) == IF op \in {"ui_click", "ui_click_text"} THEN "press" ELSE op

\* C20: a pending confirmation entry leaves the pending set only through a
\* /confirm call that names its handle or through a guarded call that
\* presents its handle and whose action kind equals the stored kind; a
\* guarded call of a different kind that presents the handle leaves the
\* entry in place.
C20_PendingFrame ==
    \A h \in DOMAIN PENDING_CONFIRMATIONS :
      /\ \A op \in SensitiveOps, t \in Tokens, s \in Sessions, a \in Handles,
            ok \in BOOLEAN :
            \A x \in ArgsOf(op), hh \in HashOf(op) :
              h \notin DOMAIN Call(World, op, t, s, a, x, ok, hh).w.pc
                  => a = h /\ ConfirmKind(op) = PENDING_CONFIRMATIONS[h]
      /\ \A t \in Tokens, s \in Sessions, a \in Handles \ {NoId} :
            h \notin DOMAIN confirm(World, t, s, a).w.pc => a = h

\* Requests that present another handle, or none, do leave the entry in place.
C20_OtherHandlesKeep ==
    \A h \in DOMAIN PENDING_CONFIRMATIONS :
      /\ \A op \in SensitiveOps, t \in Tokens, s \in Sessions, a \in Handles,
            ok \in BOOLEAN :
            \A x \in ArgsOf(op), hh \in HashOf(op) :
              h \notin DOMAIN Call(World, op, t, s, a, x, ok, hh).w.pc => a = h
      /\ \A t \in Tokens, s \in Sessions, a \in Handles \ {NoId} :
            h \notin DOMAIN confirm(World, t, s, a).w.pc => a = h

----------------------------------------------------------------------------
\* the sensitive routes that guard with the kind of the pending entry h
GuardedBy(h) == {op \in SensitiveOps : ConfirmKind(op) = PENDING_CONFIRMATIONS[h]}

\* what C21 says of the requests to the routes Ops that present a pending
\* handle of their kind
PendingSurvivesRejection(Ops) ==
    \A h \in DOMAIN PENDING_CONFIRMATIONS :
      \A op \in GuardedBy(h) \cap Ops, t \in Tokens, s \in Sessions, ok \in BOOLEAN :
        \A x \in ArgsOf(op), hh \in HashOf(op) :
          LET r == Call(World, op, t, s, h, x, ok, hh) IN
          /\ ~EarlierGatesPass(op, t, s, x) =>
                /\ r.w.pc = PENDING_CONFIRMATIONS
                /\ r.drv = {}
                /\ r.out \in {"Forbidden", "Unauthorized", "RateLimited", "CooldownActive"}
          /\ (EarlierGatesPass(op, t, s, x) /\ WellFormed(op, x)) => Executed(op, r)
          /\ r.out = "CooldownActive" => r.w.la = LAST_ACTION

\* C21: a sensitive request that presents a pending handle of its kind and
\* is rejected by an earlier gate (endpoint filter, session validation, rate
\* limit, cooldown, application allowlist) leaves the pending set unchanged,
\* and the handle, being still pending, executes the action on a retry that
\* passes those gates; a request rejected with CooldownActive leaves
\* LAST_ACTION unchanged.
C21_RejectionKeepsHandle == PendingSurvivesRejection(SensitiveOps)

\* The same holds of the five sensitive routes other than ui_click_text.
C21_RejectionKeepsHandleDirect ==
    PendingSurvivesRejection(SensitiveOps \ {"ui_click_text"})

====
